---- MODULE Spec2Model ----
(***************************************************************************)
(* Cache-line best-effort field randomization                              *)
(* (clang/lib/AST/LayoutFieldRandomizer.cpp, RandstructSeed).              *)
(*                                                                         *)
(* A member (FieldDecl) is its position 1..n in the declared order; the    *)
(* declaration system supplies isBitField and the width in bits.           *)
(* A bucket is a record [kind, size, fields]; a null unique_ptr is Null.   *)
(*                                                                         *)
(* std::shuffle with a std::default_random_engine built from a seed_seq is *)
(* implementation-defined but deterministic: the permutation it applies is *)
(* a function of the engine state and of the length of the range.  That    *)
(* function is the variable `table`, fixed entry by entry the first time   *)
(* an entry is used and never changed afterwards.                          *)
(*                                                                         *)
(* History variables: `sealed` is the list of buckets in the order the     *)
(* partitioner sealed them; `pass` lists what happened to the non-bitfield *)
(* members taken from the queue since skipped was last 0 (rejected, or     *)
(* added to the current bucket).                                           *)
(***************************************************************************)
EXTENDS Integers, Sequences, FiniteSets, TLC

VARIABLES RandstructSeed, RandstructAutoSelect,
          input, fields, buckets, currentBucket, currentBitfieldRun,
          skipped, finalOrder, idx, pc, output, sealed, pass,
          table, calls, ref

vars == <<RandstructSeed, RandstructAutoSelect,
          input, fields, buckets, currentBucket, currentBitfieldRun,
          skipped, finalOrder, idx, pc, output, sealed, pass,
          table, calls, ref>>

(* ---------------- bounds ---------------- *)
MaxLen == 4
DetMaxLen == 2
MaxCalls == 2

(* widths the width-resolution service may report *)
Widths == {0, 2, 32, 63, 128}
DetWidths == {32, 63}
Seeds == {"", "k"}

(* ---------------- program constants ---------------- *)
CACHE_LINE == 64

(* ---------------- members ---------------- *)
Kinds(ws) == {[bf |-> TRUE, w |-> 1]} \cup {[bf |-> FALSE, w |-> x] : x \in ws}
MemberLists(n, ws) == UNION {[1..k -> Kinds(ws)] : k \in 0..n}
Inputs == MemberLists(MaxLen, Widths)
DetInputs == MemberLists(DetMaxLen, DetWidths)

isBitField(f) == input[f].bf
Width(f) == input[f].w

(* ---------------- Bucket / BitfieldRun ---------------- *)
Null == [kind |-> "null", size |-> 0, fields |-> <<>>]
NewBucket == [kind |-> "bucket", size |-> 0, fields |-> <<>>]
(* a run created as a plain bucket *)
NewBitfieldRun_plain == [kind |-> "bucket", size |-> 0, fields |-> <<>>]
NewBitfieldRun == [kind |-> "run", size |-> 0, fields |-> <<>>]

isBitfieldRun(b) == b.kind = "run"
empty(b) == b.size = 0
(* full only when the cache line is exceeded *)
full_strict(b) == b.size > CACHE_LINE
full(b) == b.size >= CACHE_LINE
(* canFit without the waiver for an empty bucket *)
canFit_noWaiver(b, size) ==
    IF isBitfieldRun(b) THEN TRUE ELSE b.size + size <= CACHE_LINE
canFit(b, size) ==
    IF isBitfieldRun(b) THEN TRUE
    ELSE empty(b) \/ b.size + size <= CACHE_LINE
(* add that accounts the size but loses the field *)
add_dropField(b, f, size) == [b EXCEPT !.size = @ + size]
add(b, f, size) == [b EXCEPT !.fields = Append(@, f), !.size = @ + size]

(* ---------------- pseudo-random source ---------------- *)
Perms(n) == {p \in [1..n -> 1..n] : \A i, j \in 1..n : p[i] = p[j] => i = j}
Permute(s, p) == [i \in 1..Len(s) |-> s[p[i]]]
(* an engine whose state also depends on the calls made so far *)
NewEngine_carried(seed) == [seed |-> seed, stream |-> calls]
(* std::seed_seq Seq(seed); std::default_random_engine{Seq} *)
NewEngine(seed) == [seed |-> seed, stream |-> 0]
(* the permutations std::shuffle may apply to a range of n elements *)
ShuffleChoices(rng, n) ==
    IF <<rng, n>> \in DOMAIN table THEN {table[<<rng, n>>]} ELSE Perms(n)
Learn(rng, n, p) ==
    IF <<rng, n>> \in DOMAIN table THEN table ELSE table @@ (<<rng, n>> :> p)

(* ---------------- perfrandomize: the partitioning loop ---------------- *)
(* a rule that resets the counter but keeps the bucket open *)
ProgressRule_keepOpen ==
    [skipped |-> IF skipped >= Len(fields) THEN 0 ELSE skipped,
     buckets |-> buckets, currentBucket |-> currentBucket]
(* a rule that fires one skip early *)
ProgressRule_offByOne ==
    IF skipped + 1 >= Len(fields)
    THEN [skipped |-> 0, buckets |-> Append(buckets, currentBucket),
          currentBucket |-> Null]
    ELSE [skipped |-> skipped, buckets |-> buckets,
          currentBucket |-> currentBucket]
(* a rule that fires one skip late *)
ProgressRule_late ==
    IF skipped > Len(fields)
    THEN [skipped |-> 0, buckets |-> Append(buckets, currentBucket),
          currentBucket |-> Null]
    ELSE [skipped |-> skipped, buckets |-> buckets,
          currentBucket |-> currentBucket]
(* lines 136-139: the progress rule at the top of an iteration *)
ProgressRule ==
    IF skipped >= Len(fields)
    THEN [skipped |-> 0, buckets |-> Append(buckets, currentBucket),
          currentBucket |-> Null]
    ELSE [skipped |-> skipped, buckets |-> buckets,
          currentBucket |-> currentBucket]

(* a run that is never ended *)
EndRun_never(bs) == [buckets |-> bs, currentBitfieldRun |-> currentBitfieldRun]
(* lines 159-161: end the bitfield run when a non-bitfield is met *)
EndRun(bs) ==
    IF currentBitfieldRun # Null
    THEN [buckets |-> Append(bs, currentBitfieldRun),
          currentBitfieldRun |-> Null]
    ELSE [buckets |-> bs, currentBitfieldRun |-> currentBitfieldRun]

(* lines 163-165: make a bucket if there is none *)
OpenBucket(b) == IF b = Null THEN NewBucket ELSE b

(* a re-enqueue that leaves the member at the front *)
Requeue_front(q, f) == q
(* a re-enqueue that forgets to erase the front *)
Requeue_noErase(q, f) == Append(q, f)
(* lines 184-185: push_back(f), then erase the front *)
Requeue(q, f) == Tail(Append(q, f))

(* a read that leaves the seed string cleared *)
ReadSeed_consume ==
    /\ RandstructSeed' = ""
    /\ UNCHANGED RandstructAutoSelect
(* lines 60, 202: the seed is only read, through begin() and end() *)
ReadSeed == UNCHANGED <<RandstructSeed, RandstructAutoSelect>>

(* the history since skipped was last 0 *)
PassSince(k) == IF k = 0 THEN <<>> ELSE pass

LoopFrame == UNCHANGED <<RandstructSeed, RandstructAutoSelect, input,
                         finalOrder, idx, output, table, calls, ref>>

(* lines 145-155 *)
LoopBitfield ==
    /\ pc = "loop" /\ fields # <<>>
    /\ LET r == ProgressRule
           f == Head(fields)
       IN /\ isBitField(f)
          /\ currentBitfieldRun' =
                add(IF currentBitfieldRun = Null THEN NewBitfieldRun
                    ELSE currentBitfieldRun, f, 1)
          /\ fields' = Tail(fields)
          /\ skipped' = r.skipped
          /\ buckets' = r.buckets
          /\ currentBucket' = r.currentBucket
          /\ pass' = PassSince(r.skipped)
    /\ sealed' = buckets'
    /\ pc' = "loop"
    /\ LoopFrame

(* lines 156-179 *)
LoopAdd ==
    /\ pc = "loop" /\ fields # <<>>
    /\ LET r == ProgressRule
           f == Head(fields)
           e == EndRun(r.buckets)
           bs == e.buckets
           b == OpenBucket(r.currentBucket)
           width == Width(f)
       IN /\ ~isBitField(f)
          /\ canFit(b, width)
          /\ currentBitfieldRun' = e.currentBitfieldRun
          /\ fields' = Tail(fields)
          /\ IF full(add(b, f, width))
             THEN /\ skipped' = 0
                  /\ buckets' = Append(bs, add(b, f, width))
                  /\ currentBucket' = Null
                  /\ pass' = <<>>
             ELSE /\ skipped' = r.skipped
                  /\ buckets' = bs
                  /\ currentBucket' = add(b, f, width)
                  /\ pass' = IF r.skipped = 0 THEN <<>>
                             ELSE Append(pass, [m |-> f, ev |-> "added"])
    /\ sealed' = buckets'
    /\ pc' = "loop"
    /\ LoopFrame

(* lines 156-169, 180-186 *)
LoopSkip ==
    /\ pc = "loop" /\ fields # <<>>
    /\ LET r == ProgressRule
           f == Head(fields)
           e == EndRun(r.buckets)
           bs == e.buckets
           b == OpenBucket(r.currentBucket)
           width == Width(f)
       IN /\ ~isBitField(f)
          /\ ~canFit(b, width)
          /\ currentBitfieldRun' = e.currentBitfieldRun
          /\ skipped' = r.skipped + 1
          /\ fields' = Requeue(fields, f)
          /\ pass' = Append(PassSince(r.skipped), [m |-> f, ev |-> "rejected"])
          /\ buckets' = bs
          /\ currentBucket' = b
    /\ sealed' = buckets'
    /\ pc' = "loop"
    /\ LoopFrame

(* lines 190-200: the loop is left, open buckets are tied off *)
TieOff ==
    /\ pc = "loop" /\ fields = <<>>
    /\ LET bs == IF currentBucket # Null THEN Append(buckets, currentBucket)
                 ELSE buckets
       IN /\ buckets' = EndRun(bs).buckets
          /\ currentBitfieldRun' = EndRun(bs).currentBitfieldRun
    /\ currentBucket' = Null
    /\ sealed' = buckets'
    /\ pc' = "shuffle"
    /\ UNCHANGED <<fields, skipped, pass>>
    /\ LoopFrame

(* ---------------- perfrandomize: shuffle and flatten ---------------- *)
(* lines 202-204 *)
ShuffleBuckets ==
    /\ pc = "shuffle"
    /\ LET rng == NewEngine(RandstructSeed)
       IN \E p \in ShuffleChoices(rng, Len(buckets)) :
            /\ buckets' = Permute(buckets, p)
            /\ table' = Learn(rng, Len(buckets), p)
    /\ idx' = 1
    /\ pc' = "flatten"
    /\ ReadSeed
    /\ UNCHANGED <<input, fields,
                   currentBucket, currentBitfieldRun, skipped, finalOrder,
                   output, sealed, pass, calls, ref>>

(* a run that scrambles its bitfields *)
BitfieldRunRandomize_reversed(b, p) ==
    [i \in 1..Len(b.fields) |-> b.fields[Len(b.fields) + 1 - i]]
(* lines 95-98 *)
BitfieldRunRandomize(b, p) == b.fields
(* lines 58-64 *)
BucketRandomize(b, p) == Permute(b.fields, p)
(* an insert behind the first element instead of at the end *)
InsertAtEnd_second(order, randomized) ==
    IF order = <<>> THEN randomized
    ELSE <<Head(order)>> \o randomized \o Tail(order)
(* line 210 *)
InsertAtEnd(order, randomized) == order \o randomized

(* lines 208-211: one iteration of the flattening loop *)
FlattenBucket ==
    /\ pc = "flatten" /\ idx <= Len(buckets)
    /\ LET bucket == buckets[idx]
           rng == NewEngine(RandstructSeed)
       IN IF bucket = Null
          THEN (* null unique_ptr dereferenced: undefined behaviour *)
               /\ pc' = "ub"
               /\ finalOrder' \in {finalOrder, <<>>}
               /\ UNCHANGED <<buckets, table, idx>>
          ELSE IF isBitfieldRun(bucket)
          THEN /\ finalOrder' =
                    InsertAtEnd(finalOrder, BitfieldRunRandomize(bucket, <<>>))
               /\ idx' = idx + 1
               /\ pc' = "flatten"
               /\ UNCHANGED <<buckets, table>>
          ELSE \E p \in ShuffleChoices(rng, Len(bucket.fields)) :
               /\ buckets' = [buckets EXCEPT
                                ![idx].fields = BucketRandomize(bucket, p)]
               /\ finalOrder' =
                    InsertAtEnd(finalOrder, BucketRandomize(bucket, p))
               /\ table' = Learn(rng, Len(bucket.fields), p)
               /\ idx' = idx + 1
               /\ pc' = "flatten"
    /\ ReadSeed
    /\ UNCHANGED <<input, fields,
                   currentBucket, currentBitfieldRun, skipped, output,
                   sealed, pass, calls, ref>>

(* line 213, and rearrange's return at line 218 *)
Return ==
    /\ pc = "flatten" /\ idx > Len(buckets)
    /\ output' = finalOrder
    /\ pc' = "done"
    /\ UNCHANGED <<RandstructSeed, RandstructAutoSelect, input, fields,
                   buckets, currentBucket, currentBitfieldRun, skipped,
                   finalOrder, idx, sealed, pass, table, calls, ref>>

(* ---------------- callers ---------------- *)
(* lines 117-130: locals at entry of perfrandomize(ctx, fields) *)
Entry(in) ==
    /\ input' = in
    /\ fields' = [i \in 1..Len(in) |-> i]
    /\ buckets' = <<>>
    /\ currentBucket' = Null
    /\ currentBitfieldRun' = Null
    /\ skipped' = 0
    /\ finalOrder' = <<>>
    /\ idx' = 0
    /\ sealed' = <<>>
    /\ pass' = <<>>
    /\ output' = <<>>
    /\ pc' = "loop"

(* lines 216-219: a further call of rearrange, one per record laid out *)
rearrange ==
    /\ pc \in {"done", "idle"} /\ calls < MaxCalls
    /\ \E in \in DetInputs : Entry(in)
    /\ calls' = calls + 1
    /\ UNCHANGED <<RandstructSeed, RandstructAutoSelect, table, ref>>

(* the driver sets the seed between two calls; the finished call's result *)
(* has been consumed by then                                              *)
SetSeed ==
    /\ pc = "done" /\ calls < MaxCalls
    /\ \E s \in Seeds \ {RandstructSeed} : RandstructSeed' = s
    /\ pc' = "idle"
    /\ UNCHANGED <<RandstructAutoSelect, input, fields, buckets,
                   currentBucket, currentBitfieldRun, skipped, finalOrder,
                   idx, output, sealed, pass, table, calls, ref>>

(* an observer keeps one finished call (the seed it ran with, its input   *)
(* and its result) to compare later calls with                            *)
Record ==
    /\ pc = "done" /\ ref = <<>>
    /\ ref' = <<[seed |-> RandstructSeed, input |-> input, output |-> output,
               call |-> calls]>>
    /\ UNCHANGED <<RandstructSeed, RandstructAutoSelect, input, fields,
                   buckets, currentBucket, currentBitfieldRun, skipped,
                   finalOrder, idx, pc, output, sealed, pass, table, calls>>

InitWith(ins) ==
    /\ RandstructSeed \in Seeds
    /\ RandstructAutoSelect = FALSE
    /\ input \in ins
    /\ fields = [i \in 1..Len(input) |-> i]
    /\ buckets = <<>>
    /\ currentBucket = Null
    /\ currentBitfieldRun = Null
    /\ skipped = 0
    /\ finalOrder = <<>>
    /\ idx = 0
    /\ sealed = <<>>
    /\ pass = <<>>
    /\ output = <<>>
    /\ pc = "loop"
    /\ table = <<>>
    /\ calls = 1
    /\ ref = <<>>

Init == InitWith(Inputs)
InitDet == InitWith(DetInputs)

(* lines 132-200: the partitioner *)
Partition == LoopBitfield \/ LoopAdd \/ LoopSkip \/ TieOff

perfrandomize == Partition \/ ShuffleBuckets \/ FlattenBucket \/ Return

Next == perfrandomize
NextDet == perfrandomize \/ rearrange \/ SetSeed \/ Record

Spec == Init /\ [][Next]_vars
(* the partitioner alone; the call is synchronous and runs without         *)
(* suspension, so an enabled step of the loop is eventually taken          *)
SpecLive == Init /\ [][Partition]_vars /\ WF_vars(Partition)
SpecDet == InitDet /\ [][NextDet]_vars
(* the partitioner alone, for the properties of the loop's states *)
SpecPartition == Init /\ [][Partition]_vars

(* ---------------- properties ---------------- *)
Range(s) == {s[i] : i \in 1..Len(s)}
Members == 1..Len(input)
Positions(m) == {i \in 1..Len(output) : output[i] = m}
WidthsOf(in) == [i \in 1..Len(in) |-> IF in[i].bf THEN -1 ELSE in[i].w]
RECURSIVE SumWidths(_)
SumWidths(s) == IF s = <<>> THEN 0 ELSE Width(Head(s)) + SumWidths(Tail(s))

(* C1: the list returned by rearrange is a permutation of the input: same  *)
(* length, every input member exactly once.                                *)
C1_Permutation ==
    pc = "done" =>
        /\ Len(output) = Len(input)
        /\ \A m \in Members : Cardinality(Positions(m)) = 1
C1_Witness ==
    /\ pc = "done" /\ Len(input) >= 3
    /\ \E i, j \in Members : input[i].bf /\ ~input[j].bf
    /\ output # [i \in Members |-> i]
    /\ Range(output) = Members

(* maximal runs of consecutive bitfields of the input, as <<first, last>> *)
MaximalRuns ==
    {<<a, b>> \in Members \X Members :
        /\ a <= b
        /\ \A i \in a..b : input[i].bf
        /\ (a = 1 \/ ~input[a - 1].bf)
        /\ (b = Len(input) \/ ~input[b + 1].bf)}

(* C2: every maximal run of consecutive bitfields of the input occupies    *)
(* consecutive positions of the output, in the original relative order.    *)
C2_BitfieldAdjacency ==
    pc = "done" =>
        \A r \in MaximalRuns :
            \E k \in 0..Len(output) :
                \A j \in 0..(r[2] - r[1]) :
                    /\ k + j + 1 <= Len(output)
                    /\ output[k + j + 1] = r[1] + j
C2_Witness ==
    /\ pc = "done"
    /\ WidthsOf(input) = <<63, 2, -1, -1>>
    /\ \E k \in 1..3 : output[k] = 3 /\ output[k + 1] = 4

(* C3: every sealed generic group is a single member or has a total width  *)
(* of at most 64.                                                          *)
C3_CapacityLaw ==
    \A i \in 1..Len(sealed) :
        (sealed[i] # Null /\ ~isBitfieldRun(sealed[i])) =>
            \/ Len(sealed[i].fields) = 1
            \/ SumWidths(sealed[i].fields) <= CACHE_LINE

(* C4: the partitioning loop eventually ends with the work queue empty and *)
(* every group sealed.                                                     *)
C4_Termination ==
    <>(/\ pc # "loop" /\ fields = <<>>
       /\ currentBucket = Null /\ currentBitfieldRun = Null)
C4_Witness ==
    /\ pc = "shuffle"
    /\ WidthsOf(input) = <<63, 2, 63, 2>>
    /\ [i \in 1..Len(buckets) |-> buckets[i].fields]
          = <<(<<1>>), <<2, 4>>, (<<3>>)>>

BlockOf(g) == {i \in 1..Len(output) : output[i] \in Range(g.fields)}
C6_GroupConfinement ==
    pc = "done" =>
        \A n \in 1..Len(sealed) :
            LET P == BlockOf(sealed[n])
            IN /\ Cardinality(P) = Len(sealed[n].fields)
               /\ \A i, j \in P : \A k \in i..j : k \in P
C6_Witness ==
    /\ pc = "done"
    /\ Len(sealed) >= 2
    /\ \E n \in 1..Len(sealed) :
          /\ ~isBitfieldRun(sealed[n])
          /\ Len(sealed[n].fields) >= 2
          /\ \E i \in 1..(Len(output) - 1) :
                /\ output[i] > output[i + 1]
                /\ {output[i], output[i + 1]} \subseteq Range(sealed[n].fields)

(* the bitfield runs among a sequence of groups, in order *)
IsRun(g) == g # Null /\ isBitfieldRun(g)
RunsOf(gs) == SelectSeq(gs, IsRun)
RunFields(gs) == [i \in 1..Len(RunsOf(gs)) |-> RunsOf(gs)[i].fields]
RunMembers(a, b) == [i \in 1..(b - a + 1) |-> a + i - 1]

(* C7: the partitioner seals exactly one run per maximal run of bitfields  *)
(* of the input, holding that run's members in order; a run is sealed only *)
(* when a non-bitfield is processed or the queue is exhausted; an input of *)
(* bitfields only gives one run and no generic group.                      *)
C7_RunsSealed ==
    pc = "shuffle" =>
        /\ Len(RunsOf(buckets)) = Cardinality(MaximalRuns)
        /\ \A r \in MaximalRuns :
              \E i \in 1..Len(RunsOf(buckets)) :
                  RunFields(buckets)[i] = RunMembers(r[1], r[2])
        /\ \A i, j \in 1..Len(RunsOf(buckets)) :
              i < j => RunFields(buckets)[i][1] < RunFields(buckets)[j][1]
        /\ ((input # <<>> /\ \A m \in Members : input[m].bf)
               => Len(buckets) = 1 /\ IsRun(buckets[1]))
C7_SealedOnlyAtNonBitfield ==
    (Len(RunsOf(buckets')) > Len(RunsOf(buckets))) =>
        /\ pc = "loop"
        /\ (fields = <<>> \/ ~isBitField(Head(fields)))
C8_Admitted ==
    (/\ pc = "loop" /\ fields # <<>>
     /\ ~isBitField(Head(fields))
     /\ (ProgressRule.currentBucket = Null
           \/ ProgressRule.currentBucket.fields = <<>>))
        => /\ fields' = Tail(fields)
           /\ IF Width(Head(fields)) >= 64
              THEN /\ currentBucket' = Null
                   /\ buckets' # <<>>
                   /\ buckets'[Len(buckets')].fields = <<Head(fields)>>
                   /\ ~isBitfieldRun(buckets'[Len(buckets')])
              ELSE currentBucket'.fields = <<Head(fields)>>
C8_Single128 ==
    (pc = "shuffle" /\ WidthsOf(input) = <<128>>)
        => buckets = <<[kind |-> "bucket", size |-> 128, fields |-> <<1>>]>>
C8_EmptyGroupAdmits == [](C8_Single128) /\ [][C8_Admitted]_vars
C8_Witness ==
    /\ pc = "shuffle"
    /\ Len(input) >= 2
    /\ \E i \in 1..Len(buckets) :
          /\ buckets[i].size = 128
          /\ Len(buckets[i].fields) = 1

(* C9: n non-bitfields of width 32 give ceil(n/2) generic groups, group i  *)
(* holding members 2i-1 and 2i (total width 64), with no member ever       *)
(* re-enqueued, and every output keeps the two members of a pair adjacent. *)
All32 == input # <<>> /\ \A m \in Members : ~input[m].bf /\ input[m].w = 32
Pair(i) == IF 2 * i <= Len(input) THEN <<2 * i - 1, 2 * i>> ELSE <<2 * i - 1>>
C9_Width32Pairs ==
    All32 =>
        /\ skipped = 0
        /\ fields = <<>> \/ fields = [i \in 1..Len(fields) |->
                                        Len(input) - Len(fields) + i]
        /\ pc = "shuffle" =>
              /\ Len(buckets) = (Len(input) + 1) \div 2
              /\ \A i \in 1..Len(buckets) :
                    /\ buckets[i].kind = "bucket"
                    /\ buckets[i].fields = Pair(i)
                    /\ buckets[i].size = 32 * Len(Pair(i))
        /\ pc = "done" =>
              \A i \in 1..(Len(input) \div 2) :
                  \E k \in 1..(Len(output) - 1) :
                      {output[k], output[k + 1]} = {2 * i - 1, 2 * i}
C9_Witness ==
    /\ All32 /\ Len(input) = 4 /\ pc = "done"
    /\ output[1] > 2

(* C10: every entry of the sealed-groups list is an existing group with at *)
(* least one member; skipped > 0 implies a generic group is open; the      *)
(* flattening never meets a missing group; an empty input creates no group *)
(* and returns an empty output.                                            *)
C10_NoMissingGroup ==
    /\ \A i \in 1..Len(buckets) :
          buckets[i] # Null /\ Len(buckets[i].fields) >= 1
    /\ (pc = "loop" /\ skipped > 0) => currentBucket # Null
    /\ pc # "ub"
    /\ input = <<>> =>
          /\ buckets = <<>>
          /\ currentBucket = Null /\ currentBitfieldRun = Null
          /\ output = <<>> /\ finalOrder = <<>>
C10_Witness ==
    /\ pc = "done" /\ output # <<>>
    /\ Len(buckets) >= 2
    /\ \E i \in 1..(Len(output) - 1) :
          ~input[output[i]].bf /\ output[i] > output[i + 1]

(* C11: no step of a call of rearrange changes the seed string or the      *)
(* auto-select flag; only the driver, between calls, sets the seed.        *)
C11_InCall == pc \in {"loop", "shuffle", "flatten"}
C11_SeedReadOnly ==
    [][C11_InCall =>
          /\ RandstructSeed' = RandstructSeed
          /\ RandstructAutoSelect' = RandstructAutoSelect]_vars
C11_Witness ==
    /\ pc = "done" /\ calls >= 2
    /\ RandstructSeed = "k"
    /\ RandstructAutoSelect = FALSE
    /\ <<NewEngine("k"), 2>> \in DOMAIN table
    /\ <<NewEngine(""), 2>> \in DOMAIN table
    /\ Len(output) >= 2

(* the progress rule fires at the top of this iteration *)
RuleFires == pc = "loop" /\ fields # <<>> /\ skipped >= Len(fields)
IsRejected(e) == e.ev = "rejected"
IsAdded(e) == e.ev = "added"
RejectedInPass == [i \in 1..Len(SelectSeq(pass, IsRejected)) |->
                     SelectSeq(pass, IsRejected)[i].m]
AddedInPass == [i \in 1..Len(SelectSeq(pass, IsAdded)) |->
                  SelectSeq(pass, IsAdded)[i].m]

(* C12 as stated: when the progress rule fires, every non-bitfield taken   *)
(* from the queue since the first rejection counted in skipped was         *)
(* rejected; none was added to the current bucket.                         *)
C12_NoPlacementInPass == RuleFires => AddedInPass = <<>>

(* C12 amended: when the progress rule fires, the members left in the      *)
(* queue are exactly those rejected by the current bucket since skipped    *)
(* was last 0, in that order; members taken in between that fitted without *)
(* filling the bucket were added to it.                                    *)
C12_PassRejectsQueue ==
    RuleFires =>
        /\ currentBucket # Null
        /\ RejectedInPass = fields
        /\ Range(AddedInPass) \subseteq Range(currentBucket.fields)
        /\ Range(AddedInPass) \cap Range(fields) = {}
        /\ ~full(currentBucket)
C12_Witness ==
    /\ RuleFires
    /\ AddedInPass # <<>>
    /\ Len(fields) >= 1
    /\ RejectedInPass = fields

(* the generic buckets among a sequence of groups *)
IsGeneric(g) == g # Null /\ ~isBitfieldRun(g)
NoneFits(g) ==
    \A i \in 1..Len(fields) :
        ~isBitField(fields[i]) /\ g.size + Width(fields[i]) > CACHE_LINE

(* C13: when the progress rule seals the open generic group, every member  *)
(* left in the queue is a non-bitfield that does not fit it; a generic     *)
(* group is otherwise sealed only when full or when the queue is empty.    *)
C13_SealedAtRule == RuleFires => (currentBucket # Null /\ NoneFits(currentBucket))
C13_SealStep ==
    \A i \in (Len(buckets) + 1)..Len(buckets') :
        IsGeneric(buckets'[i]) =>
            \/ full(buckets'[i])
            \/ pc = "loop" /\ fields = <<>> /\ buckets'[i] = currentBucket
            \/ /\ RuleFires /\ buckets'[i] = currentBucket
               /\ i = Len(buckets) + 1 /\ NoneFits(currentBucket)
C13_SealedOnlyWhenStuck ==
    [](C13_SealedAtRule) /\ [][pc = "loop" => C13_SealStep]_vars
C13_Witness ==
    /\ pc = "shuffle"
    /\ \E i, j \in 1..Len(buckets) :
          /\ i < j
          /\ IsGeneric(buckets[i]) /\ IsGeneric(buckets[j])
          /\ ~full(buckets[i]) /\ Len(buckets[i].fields) >= 2
          /\ buckets[j].fields[1] < buckets[i].fields[Len(buckets[i].fields)]

LastOf(q, k) == SubSeq(q, Len(q) - k + 1, Len(q))
NoRepeat(q) == \A i, j \in 1..Len(q) : q[i] = q[j] => i = j

(* C14: no member is rejected twice by the same generic group: at every    *)
(* pop skipped is less than the queue length, the members rejected since   *)
(* skipped was last reset are exactly the last `skipped` elements of the   *)
(* queue, and a rejected member is not popped again before the group that  *)
(* rejected it is sealed.                                                  *)
C14_RejectedOnce ==
    pc = "loop" =>
        /\ skipped <= Len(fields)
        /\ Len(RejectedInPass) = skipped
        /\ RejectedInPass = LastOf(fields, skipped)
        /\ NoRepeat(RejectedInPass)
        /\ fields # <<>> =>
              /\ ProgressRule.skipped < Len(fields)
              /\ (ProgressRule.currentBucket # Null /\ ProgressRule.skipped > 0)
                    => Head(fields) \notin Range(RejectedInPass)
C14_Witness ==
    /\ pc = "loop"
    /\ skipped >= 2
    /\ Len(fields) > skipped
    /\ RejectedInPass = LastOf(fields, skipped)
    /\ ~isBitField(Head(fields))

(* every group there is: sealed, or open *)
AllGroups == Range(buckets) \cup {currentBucket, currentBitfieldRun}
Pure(g) ==
    \A i \in 1..Len(g.fields) :
        isBitField(g.fields[i]) <=> isBitfieldRun(g)

(* C15: a bitfield run holds only bitfields and a generic group only       *)
(* non-bitfields; a bitfield is always added to the open run and never     *)
(* re-enqueued; a non-bitfield is never added to a run, the open run is    *)
(* sealed first.                                                           *)
C15_Pure ==
    /\ \A g \in AllGroups : Pure(g)
    /\ currentBucket.kind \in {"null", "bucket"}
    /\ currentBitfieldRun.kind \in {"null", "run"}
C15_Step ==
    (pc = "loop" /\ fields # <<>>) =>
        IF isBitField(Head(fields))
        THEN /\ fields' = Tail(fields)
             /\ currentBitfieldRun'.fields =
                   currentBitfieldRun.fields \o <<Head(fields)>>
             /\ isBitfieldRun(currentBitfieldRun')
        ELSE /\ currentBitfieldRun' = Null
             /\ currentBitfieldRun # Null =>
                   \E i \in 1..Len(buckets') : buckets'[i] = currentBitfieldRun
C15_KindsNeverMix == [](C15_Pure) /\ [][C15_Step]_vars
C15_Witness ==
    /\ pc = "loop"
    /\ currentBitfieldRun # Null /\ Len(currentBitfieldRun.fields) >= 1
    /\ currentBucket # Null
    /\ skipped >= 1
    /\ \E i \in 1..Len(buckets) : isBitfieldRun(buckets[i])

(* C16: at the top of every loop iteration the open generic group has size *)
(* below 64: a group whose size reaches 64 is sealed and closed in the     *)
(* step that filled it, with skipped reset to 0, and a sealed group        *)
(* receives no further member.                                             *)
C16_OpenBelowCapacity ==
    (pc = "loop" /\ currentBucket # Null) => currentBucket.size < CACHE_LINE
C16_Step ==
    pc = "loop" =>
        /\ \A i \in 1..Len(buckets) :
              Len(buckets') >= i /\ buckets'[i] = buckets[i]
        /\ \A i \in (Len(buckets) + 1)..Len(buckets') :
              (IsGeneric(buckets'[i]) /\ full(buckets'[i])) =>
                  /\ i = Len(buckets') /\ fields # <<>>
                  /\ buckets'[i].fields[Len(buckets'[i].fields)] = Head(fields)
                  /\ currentBucket' = Null
                  /\ skipped' = 0
C16_FullIsSealed == [](C16_OpenBelowCapacity) /\ [][C16_Step]_vars
C16_Witness ==
    /\ pc = "loop"
    /\ currentBucket # Null
    /\ \E i \in 1..Len(buckets) :
          /\ IsGeneric(buckets[i]) /\ buckets[i].size = CACHE_LINE
          /\ Len(buckets[i].fields) >= 2

Occurrences(q, m) == Cardinality({i \in 1..Len(q) : q[i] = m})
RECURSIVE SealedOccurrences(_, _)
SealedOccurrences(bs, m) ==
    IF bs = <<>> THEN 0
    ELSE Occurrences(Head(bs).fields, m) + SealedOccurrences(Tail(bs), m)
Holders(m) ==
    Occurrences(fields, m) + Occurrences(currentBucket.fields, m)
      + Occurrences(currentBitfieldRun.fields, m) + SealedOccurrences(buckets, m)

(* C17: during the partitioning every input member is in exactly one of    *)
(* the work queue, the open generic group, the open bitfield run and the   *)
(* sealed groups; when the loop has ended every member is in exactly one   *)
(* sealed group.                                                           *)
C17_Conservation ==
    /\ pc \in {"loop", "shuffle"} => \A m \in Members : Holders(m) = 1
    /\ pc = "shuffle" =>
          /\ fields = <<>>
          /\ currentBucket = Null /\ currentBitfieldRun = Null
          /\ \A m \in Members : SealedOccurrences(buckets, m) = 1
C17_Witness ==
    /\ pc = "loop"
    /\ skipped >= 1
    /\ currentBucket # Null /\ currentBitfieldRun # Null
    /\ buckets # <<>>
    /\ fields # <<>>
    /\ \A m \in Members : Holders(m) = 1
====
